---------------------------- MODULE Spec2Model ----------------------------
(***************************************************************************)
(* A model of the VQA benchmarking harness: the answer judge               *)
(* (src/src/llm_judge.py), the scene detector and the three evaluation     *)
(* pipelines (src/src/zero_shot.py, src/src/agent_pipelines/*.py).         *)
(*                                                                         *)
(* Texts the judge parses are sequences of one-character strings, so that  *)
(* strip(), lower() and the regular expressions are computed character by  *)
(* character.  Prompts are sequences of string parts: an f-string is the   *)
(* concatenation of its literal parts and its interpolated values.         *)
(***************************************************************************)
EXTENDS Integers, Sequences, FiniteSets, TLC

VARIABLES
    pipeline,           \* which run_* function is executing
    dataset,            \* the rows handed to the run
    pc,                 \* position in the run
    idx,                \* number of rows the for loop has fetched
    question,           \* row['question']
    ground_truth,       \* row['answer']
    image_path,         \* row['image_path']
    image,              \* what cv2.imread finds at image_path (classic)
    objects,            \* detect_objects' result (classic)
    scene_context,      \* classic_agent.py scene_context
    plan_prompt,        \* dl_agent.py plan_prompt
    plan_list,          \* dl_agent.py plan_list
    plan,               \* dl_agent.py plan
    extract_prompt,     \* dl_agent.py extract_prompt
    context_list,       \* dl_agent.py context_list
    context,            \* dl_agent.py context
    final_prompt,       \* prompt of the answering call: question (zero-shot),
                        \* enhanced_prompt (classic), final_prompt (DL)
    model_answer_list,  \* completions of the answering call
    model_answer,       \* the prediction of the current row
    predictions,        \* predictions list of the run
    scores,             \* scores list of the run
    judge_in,           \* outcome of the judge model's inference call
    judge_out,          \* what judge_answer did with it
    result,             \* the (accuracy, predictions) pair the run returned
    trace               \* history of the collaborator calls of the run

vars == <<pipeline, dataset, pc, idx, question, ground_truth, image_path,
          image, objects, scene_context, plan_prompt, plan_list, plan,
          extract_prompt, context_list, context, final_prompt,
          model_answer_list, model_answer, predictions, scores,
          judge_in, judge_out, result, trace>>

---------------------------------------------------------------------------
(* Bounds of the model *)

\* rows of the largest dataset
MaxRows == 3

\* length of the longest enumerated judge completion
MaxLen == 4

---------------------------------------------------------------------------
(* Characters and texts *)

Range(s) == {s[i] : i \in DOMAIN s}

UPPER == <<"A","B","C","D","E","F","G","H","I","J","K","L","M",
           "N","O","P","Q","R","S","T","U","V","W","X","Y","Z">>

LOWER == <<"a","b","c","d","e","f","g","h","i","j","k","l","m",
           "n","o","p","q","r","s","t","u","v","w","x","y","z">>

DIGITS == {"0","1","2","3","4","5","6","7","8","9"}

\* the characters str.strip() removes
WHITESPACE == {" ", "\t", "\n", "\r"}

\* the characters the regular expression class \w matches
IsWordChar(c) == c \in Range(UPPER) \cup Range(LOWER) \cup DIGITS \cup {"_"}

\* str.lower() on one character
LowerChar(c) ==
    IF c \in Range(UPPER)
    THEN LOWER[CHOOSE i \in DOMAIN UPPER : UPPER[i] = c]
    ELSE c

\* str.lower()
lower(s) == [i \in DOMAIN s |-> LowerChar(s[i])]

RECURSIVE lstrip(_)
lstrip(s) ==
    IF s # <<>> /\ s[1] \in WHITESPACE THEN lstrip(Tail(s)) ELSE s

RECURSIVE rstrip(_)
rstrip(s) ==
    IF s # <<>> /\ s[Len(s)] \in WHITESPACE
    THEN rstrip(SubSeq(s, 1, Len(s) - 1))
    ELSE s

\* str.strip()
strip(s) == rstrip(lstrip(s))

\* \b at the gap before position p of s (p in 1..Len(s)+1): exactly one of
\* the two neighbouring positions holds a word character
WordBoundary(s, p) ==
    LET before == p > 1 /\ IsWordChar(s[p - 1])
        after  == p <= Len(s) /\ IsWordChar(s[p])
    IN  before # after

\* the search without the \b anchors (a plain substring test)
SubstringSearch(word, s) ==
    \E p \in 1..(Len(s) - Len(word) + 1) :
        SubSeq(s, p, p + Len(word) - 1) = word

\* re.search(r'\bword\b', s) is not None
re_search(word, s) ==
    \E p \in 1..(Len(s) - Len(word) + 1) :
        /\ WordBoundary(s, p)
        /\ SubSeq(s, p, p + Len(word) - 1) = word
        /\ WordBoundary(s, p + Len(word))

YES == <<"y","e","s">>

NO == <<"n","o">>

---------------------------------------------------------------------------
(* Inference calls and exceptions *)

\* the exceptions a model backend raises (subclasses of Exception)
Exceptions == {"RuntimeError", "ValueError"}

Raises(e) == [kind |-> "raise", exc |-> e, response |-> <<>>]

Returns(r) == [kind |-> "return", exc |-> "", response |-> r]

---------------------------------------------------------------------------
(* llm_judge.py *)

Verdict(v) == [raised |-> FALSE, exc |-> "", value |-> v]

Propagates(e) == [raised |-> TRUE, exc |-> e, value |-> 0]

\* the body of judge_answer's try block, on a returned response
judge_parse(response) ==
    IF response = <<>>
    THEN 0
    ELSE LET decision == lower(strip(response[1]))
         IN  IF re_search(YES, decision) THEN 1
             ELSE IF re_search(NO, decision) THEN 0
             ELSE 0

\* judge_answer without its try/except
judge_answer_unguarded(outcome) ==
    IF outcome.kind = "raise"
    THEN Propagates(outcome.exc)
    ELSE Verdict(judge_parse(outcome.response))

\* judge_answer: `except Exception` catches every member of Exceptions
judge_answer(outcome) ==
    IF outcome.kind = "raise"
    THEN Verdict(0)
    ELSE Verdict(judge_parse(outcome.response))

---------------------------------------------------------------------------
(* classic_agent.py: the scene detector *)

\* the keys of COLOR_BOUNDS in the dict's iteration order
COLOR_BOUNDS == <<"red", "red2", "green", "blue", "yellow", "gray">>

\* contours below this area are noise
MIN_AREA == 100

\* vertices of an approximated polygon that make it a square
SQUARE_VERTICES == 4

Detected(objs) == [raised |-> FALSE, exc |-> "", objects |-> objs]

DetectFailed(e) == [raised |-> TRUE, exc |-> e, objects |-> <<>>]

\* cv2.findContours on the mask of one key; the red2 mask is OR-ed with
\* the red mask first
MaskContours(img, key) ==
    SelectSeq(img.contours,
              LAMBDA c : IF key = "red2"
                         THEN c.range \in {"red", "red2"}
                         ELSE c.range = key)

\* the loop over the contours of one colour
RECURSIVE ContourFacts(_, _)
ContourFacts(color, cnts) ==
    IF cnts = <<>>
    THEN <<>>
    ELSE LET c == Head(cnts)
             rest == ContourFacts(color, Tail(cnts))
         IN  IF c.area < MIN_AREA THEN rest
             ELSE IF c.m00 = 0 THEN rest
             ELSE <<[color  |-> color,
                     shape  |-> IF c.vertices = SQUARE_VERTICES
                                THEN "square" ELSE "circle",
                     coords |-> <<c.m10 \div c.m00, c.m01 \div c.m00>>]>>
                  \o rest

\* the loop over COLOR_BOUNDS.items()
RECURSIVE DetectColors(_, _)
DetectColors(img, keys) ==
    IF keys = <<>>
    THEN <<>>
    ELSE LET key == Head(keys)
             rest == DetectColors(img, Tail(keys))
         IN  IF key = "red" THEN rest
             ELSE ContourFacts(IF key = "red2" THEN "red" ELSE key,
                               MaskContours(img, key)) \o rest

\* detect_objects without its try/except
detect_objects_unguarded(img) ==
    IF img.decode = "none" THEN Detected(<<>>)
    ELSE IF img.decode = "error" THEN DetectFailed("cv2.error")
    ELSE Detected(DetectColors(img, COLOR_BOUNDS))

\* detect_objects: imread gives None, or OpenCV raises (caught), or the
\* colours are scanned
detect_objects(img) ==
    IF img.decode = "none" THEN Detected(<<>>)
    ELSE IF img.decode = "error" THEN Detected(<<>>)
    ELSE Detected(DetectColors(img, COLOR_BOUNDS))

\* what may be found at an image path
ImgMissing == [decode |-> "none", contours |-> <<>>]

ImgCorrupt == [decode |-> "error", contours |-> <<>>]

ImgBlank == [decode |-> "ok", contours |-> <<>>]

ImgShapes ==
    [decode |-> "ok",
     contours |->
       << [range |-> "green", area |-> 99, vertices |-> 4,
           m00 |-> 99, m10 |-> 990, m01 |-> 1980],
          [range |-> "red2", area |-> 400, vertices |-> 4,
           m00 |-> 400, m10 |-> 12000, m01 |-> 20100],
          [range |-> "green", area |-> 101, vertices |-> 8,
           m00 |-> 101, m10 |-> 7070, m01 |-> 909] >>]

Images == {ImgMissing, ImgCorrupt, ImgBlank, ImgShapes}

---------------------------------------------------------------------------
(* Prompts *)

NO_OBJECTS == "Scene Context: No objects were detected by the CV system."

NO_PLAN == "No plan generated."

NO_CONTEXT == "No context extracted."

RECURSIVE ObjectLines(_)
ObjectLines(objs) ==
    IF objs = <<>>
    THEN <<>>
    ELSE LET obj == Head(objs)
         IN  <<"- A ", obj.color, " ", obj.shape, " at coordinates ",
               "(" \o ToString(obj.coords[1]) \o ", "
                   \o ToString(obj.coords[2]) \o ")", "\n">>
             \o ObjectLines(Tail(objs))

\* classic_agent.py scene_context
SceneContext(objs) ==
    IF objs = <<>>
    THEN <<NO_OBJECTS>>
    ELSE <<"Scene Context: The following objects were detected:\n">>
         \o ObjectLines(objs)

\* classic_agent.py enhanced_prompt
EnhancedPrompt(sc, q) ==
    sc \o <<"\n",
            "Based *only* on the scene context provided above, answer the following question.\n",
            "Question: ", q>>

\* dl_agent.py plan_prompt
PlanPrompt(q) ==
    <<"To answer the question '", q, "', ",
      "what is the step-by-step reasoning plan I should follow? ",
      "List the steps.">>

\* dl_agent.py extract_prompt
ExtractPrompt ==
    <<"Describe all objects in the image in detail. For each object, ",
      "list its color, its shape, and its relative position (e.g., top-left, bottom-right).">>

\* a synthesis prompt that leaves the plan out
FinalPromptNoPlan(q, p, c) ==
    <<"You are a reasoning agent. Use the following information to answer the question.\n\n",
      "Original Question: ", q, "\n\n",
      "Image Context:\n", c, "\n\n",
      "Based on the plan and context, what is the final, concise answer to the original question?">>

\* dl_agent.py final_prompt
FinalPrompt(q, p, c) ==
    <<"You are a reasoning agent. Use the following information to answer the question.\n\n",
      "Original Question: ", q, "\n\n",
      "Reasoning Plan:\n", p, "\n\n",
      "Image Context:\n", c, "\n\n",
      "Based on the plan and context, what is the final, concise answer to the original question?">>

\* `xs[0] if xs else default` on empty lists only
FirstOrEmpty(xs, default) == IF xs = <<>> THEN "" ELSE xs[1]

\* `xs[0] if xs else default`
FirstOr(xs, default) == IF xs = <<>> THEN default ELSE xs[1]

---------------------------------------------------------------------------
(* The evaluation driver shared by the three pipelines *)

Pipelines == {"zero_shot", "classic", "dl"}

\* a Python local that no statement has assigned yet
Unbound == "<unbound>"

UnboundList == <<Unbound>>

UnboundImage == [decode |-> "unbound", contours |-> <<>>]

NoVerdict == [raised |-> FALSE, exc |-> Unbound, value |-> 0]

NoCall == [kind |-> "none", exc |-> "", response |-> <<>>]

\* nothing returned yet
NoResult == [accuracy |-> [num |-> 0, den |-> 0], predictions |-> <<>>]

Row(i) == [question   |-> "q" \o ToString(i),
           answer     |-> "gt" \o ToString(i),
           image_path |-> "img" \o ToString(i) \o ".png"]

Datasets == {[i \in 1..n |-> Row(i)] : n \in 0..MaxRows}

\* what vlm.inference of the model under test may do
ModelOutcomes ==
    {Raises(e) : e \in Exceptions}
    \cup {Returns(r) : r \in {<<>>, <<"t2", "t1">>}}

\* what vlm.inference of the judge model may do during a run
RunJudgeOutcomes ==
    {Raises("RuntimeError"),
     Returns(<<>>),
     Returns(<< <<"Y","e","s">> >>),
     Returns(<< <<"N","o">>, <<"Y","e","s">> >>)}

Call(step, out, text) ==
    [step |-> step, row |-> idx, raised |-> out.kind = "raise", text |-> text]

RECURSIVE Sum(_)
Sum(xs) == IF xs = <<>> THEN 0 ELSE Head(xs) + Sum(Tail(xs))

\* an accuracy that counts the rows scored 0
AccuracyOfZeros(sc) ==
    IF sc # <<>>
    THEN [num |-> Len(sc) - Sum(sc), den |-> Len(sc)]
    ELSE [num |-> 0, den |-> 1]

\* `sum(scores) / len(scores) if scores else 0`, as a fraction
Accuracy(sc) ==
    IF sc # <<>>
    THEN [num |-> Sum(sc), den |-> Len(sc)]
    ELSE [num |-> 0, den |-> 1]

\* an except clause that throws the collected predictions away
LosePredictions(preds) ==
    [accuracy |-> [num |-> 0, den |-> 1], predictions |-> <<>>]

\* the except clause: `return 0.0, predictions`
OnException(preds) ==
    [accuracy |-> [num |-> 0, den |-> 1], predictions |-> preds]

\* an except clause for one exception class only
CatchesValueErrorOnly(e) == e = "ValueError"

\* `except Exception` around the loop: every exception the collaborators
\* raise derives from Exception
PipelineCatches(e) == TRUE

\* an exception of class e reaches the loop's try block
Raise(e) ==
    IF PipelineCatches(e)
    THEN /\ pc' = "done"
         /\ result' = OnException(predictions)
    ELSE /\ pc' = "propagated"
         /\ UNCHANGED result

\* the step order with plan and extract exchanged
StepAfterSwapped(step) ==
    CASE step = "loop" /\ pipeline = "zero_shot" -> "answer"
      [] step = "loop" /\ pipeline = "classic"   -> "detect"
      [] step = "loop" /\ pipeline = "dl"        -> "extract"
      [] step = "detect"                         -> "answer"
      [] step = "extract"                        -> "plan"
      [] step = "plan"                           -> "answer"
      [] step = "answer"                         -> "judge"
      [] step = "judge"                          -> "loop"

\* the statement order inside the loop body of each pipeline
StepAfter(step) ==
    CASE step = "loop" /\ pipeline = "zero_shot" -> "answer"
      [] step = "loop" /\ pipeline = "classic"   -> "detect"
      [] step = "loop" /\ pipeline = "dl"        -> "plan"
      [] step = "detect"                         -> "answer"
      [] step = "plan"                           -> "extract"
      [] step = "extract"                        -> "answer"
      [] step = "answer"                         -> "judge"
      [] step = "judge"                          -> "loop"

rowVars == <<question, ground_truth, image_path>>

detectVars == <<image, objects, scene_context>>

planVars == <<plan_prompt, plan_list, plan>>

extractVars == <<extract_prompt, context_list, context>>

answerVars == <<final_prompt, model_answer_list, model_answer>>

judgeVars == <<judge_in, judge_out>>

---------------------------------------------------------------------------
(* judge_answer called on its own *)

\* characters of the enumerated completions
Alphabet == {"y", "e", "s", "n", "o", " "}

\* every text over Alphabet of at most MaxLen characters
Texts == UNION {[1..k -> Alphabet] : k \in 0..MaxLen}

TxtYesterday == <<"y","e","s","t","e","r","d","a","y">>

TxtYesCorrect == <<" "," ","y","e","s",","," ","t","h","a","t","'","s"," ","c","o","r","r","e","c","t">>

TxtYesNo == <<"y","e","s"," ","o","r"," ","n","o">>

TxtKnow == <<"I"," ","d","o"," ","n","o","t"," ","k","n","o","w">>

TxtYesNewline == <<"Y","e","s",".","\n">>

TxtNope == <<"n","o","p","e",","," ","y","e","s","_">>

TxtYesUpper == <<"Y","E","S">>

TxtNoComma == <<",","N","o",".">>

LongTexts == {TxtYesUpper, TxtNoComma, TxtYesterday, TxtYesCorrect, TxtYesNo, TxtKnow, TxtYesNewline, TxtNope}

\* what vlm.inference of the judge model may do
JudgeOutcomes ==
    {Raises(e) : e \in Exceptions}
    \cup {Returns(<<>>)}
    \cup {Returns(<<t>>) : t \in Texts \cup LongTexts}
    \cup {Returns(<<t, u>>) : t \in Texts \cup LongTexts,
                              u \in {<<"Y","e","s">>, <<"N","o">>}}

InitJudge ==
    /\ pipeline = "judge_only"
    /\ dataset = <<>>
    /\ pc = "judge_call"
    /\ idx = 0
    /\ question = "q1"
    /\ ground_truth = "gt1"
    /\ image_path = Unbound
    /\ image = UnboundImage
    /\ objects = <<>>
    /\ scene_context = UnboundList
    /\ plan_prompt = UnboundList
    /\ plan_list = UnboundList
    /\ plan = Unbound
    /\ extract_prompt = UnboundList
    /\ context_list = UnboundList
    /\ context = Unbound
    /\ final_prompt = UnboundList
    /\ model_answer_list = UnboundList
    /\ model_answer = "t1"
    /\ predictions = <<>>
    /\ scores = <<>>
    /\ judge_in \in JudgeOutcomes
    /\ judge_out = NoVerdict
    /\ result = NoResult
    /\ trace = <<>>

\* judge_answer(vlm, question, model_answer, ground_truth)
JudgeCall ==
    /\ pc = "judge_call"
    /\ judge_out' = judge_answer(judge_in)
    /\ pc' = IF judge_out'.raised THEN "propagated" ELSE "judge_ret"
    /\ UNCHANGED <<pipeline, dataset, idx, rowVars, detectVars, planVars,
                   extractVars, answerVars, predictions, scores, judge_in,
                   result, trace>>

InitRun ==
    /\ pipeline \in Pipelines
    /\ dataset \in Datasets
    /\ pc = "loop"
    /\ idx = 0
    /\ question = Unbound
    /\ ground_truth = Unbound
    /\ image_path = Unbound
    /\ image = UnboundImage
    /\ objects = <<>>
    /\ scene_context = UnboundList
    /\ plan_prompt = UnboundList
    /\ plan_list = UnboundList
    /\ plan = Unbound
    /\ extract_prompt = UnboundList
    /\ context_list = UnboundList
    /\ context = Unbound
    /\ final_prompt = UnboundList
    /\ model_answer_list = UnboundList
    /\ model_answer = Unbound
    /\ predictions = <<>>
    /\ scores = <<>>
    /\ judge_in = NoCall
    /\ judge_out = NoVerdict
    /\ result = NoResult
    /\ trace = <<>>

\* the for statement fetches the next row
NextRow ==
    /\ pc = "loop"
    /\ idx < Len(dataset)
    /\ idx' = idx + 1
    /\ question' = dataset[idx + 1].question
    /\ ground_truth' = dataset[idx + 1].answer
    /\ image_path' = dataset[idx + 1].image_path
    /\ pc' = StepAfter("loop")
    /\ UNCHANGED <<pipeline, dataset, detectVars, planVars, extractVars,
                   answerVars, predictions, scores, judgeVars, result, trace>>

\* the loop is exhausted: the accuracy is computed and returned
Finish ==
    /\ pc = "loop"
    /\ idx = Len(dataset)
    /\ result' = [accuracy |-> Accuracy(scores), predictions |-> predictions]
    /\ pc' = "done"
    /\ UNCHANGED <<pipeline, dataset, idx, rowVars, detectVars, planVars,
                   extractVars, answerVars, predictions, scores, judgeVars,
                   trace>>

\* classic: detect_objects(image_path) and the scene context
Detect ==
    /\ pc = "detect"
    /\ \E img \in Images :
        LET det == detect_objects(img)
            out == IF det.raised THEN Raises(det.exc) ELSE Returns(<<>>)
        IN  /\ image' = img
            /\ trace' = Append(trace, Call("detect", out, ""))
            /\ IF det.raised
               THEN /\ Raise(det.exc)
                    /\ UNCHANGED <<objects, scene_context>>
               ELSE /\ objects' = det.objects
                    /\ scene_context' = SceneContext(det.objects)
                    /\ pc' = StepAfter("detect")
                    /\ UNCHANGED result
    /\ UNCHANGED <<pipeline, dataset, idx, rowVars, planVars, extractVars,
                   answerVars, predictions, scores, judgeVars>>

\* DL step 1: the plan
Plan ==
    /\ pc = "plan"
    /\ plan_prompt' = PlanPrompt(question)
    /\ \E out \in ModelOutcomes :
        /\ trace' = Append(trace, Call("plan", out, ""))
        /\ IF out.kind = "raise"
           THEN /\ Raise(out.exc)
                /\ UNCHANGED <<plan_list, plan>>
           ELSE /\ plan_list' = out.response
                /\ plan' = FirstOr(out.response, NO_PLAN)
                /\ pc' = StepAfter("plan")
                /\ UNCHANGED result
    /\ UNCHANGED <<pipeline, dataset, idx, rowVars, detectVars, extractVars,
                   answerVars, predictions, scores, judgeVars>>

\* DL step 2: the visual context
Extract ==
    /\ pc = "extract"
    /\ extract_prompt' = ExtractPrompt
    /\ \E out \in ModelOutcomes :
        /\ trace' = Append(trace, Call("extract", out, ""))
        /\ IF out.kind = "raise"
           THEN /\ Raise(out.exc)
                /\ UNCHANGED <<context_list, context>>
           ELSE /\ context_list' = out.response
                /\ context' = FirstOr(out.response, NO_CONTEXT)
                /\ pc' = StepAfter("extract")
                /\ UNCHANGED result
    /\ UNCHANGED <<pipeline, dataset, idx, rowVars, detectVars, planVars,
                   answerVars, predictions, scores, judgeVars>>

\* the prompt of the answering call
AnswerPrompt ==
    CASE pipeline = "zero_shot" -> <<question>>
      [] pipeline = "classic"   -> EnhancedPrompt(scene_context, question)
      [] pipeline = "dl"        -> FinalPrompt(question, plan, context)

\* the answering call of the model under test and predictions.append
Answer ==
    /\ pc = "answer"
    /\ final_prompt' = AnswerPrompt
    /\ \E out \in ModelOutcomes :
        IF out.kind = "raise"
        THEN /\ trace' = Append(trace, Call("answer", out, ""))
             /\ Raise(out.exc)
             /\ UNCHANGED <<model_answer_list, model_answer, predictions>>
        ELSE LET ans == FirstOr(out.response, "")
             IN  /\ trace' = Append(trace, Call("answer", out, ans))
                 /\ model_answer_list' = out.response
                 /\ model_answer' = ans
                 /\ predictions' = Append(predictions, ans)
                 /\ pc' = StepAfter("answer")
                 /\ UNCHANGED result
    /\ UNCHANGED <<pipeline, dataset, idx, rowVars, detectVars, planVars,
                   extractVars, scores, judgeVars>>

\* judge_answer(judge_vlm, question, model_answer, ground_truth) and
\* scores.append
Judge ==
    /\ pc = "judge"
    /\ \E out \in RunJudgeOutcomes :
        LET v == judge_answer(out)
        IN  /\ judge_in' = out
            /\ judge_out' = v
            /\ trace' = Append(trace, Call("judge", out, ""))
            /\ IF v.raised
               THEN /\ Raise(v.exc)
                    /\ UNCHANGED scores
               ELSE /\ scores' = Append(scores, v.value)
                    /\ pc' = StepAfter("judge")
                    /\ UNCHANGED result
    /\ UNCHANGED <<pipeline, dataset, idx, rowVars, detectVars, planVars,
                   extractVars, answerVars, predictions>>

Init == InitRun \/ InitJudge

Next ==
    \/ JudgeCall
    \/ NextRow
    \/ Finish
    \/ Detect
    \/ Plan
    \/ Extract
    \/ Answer
    \/ Judge

Spec == Init /\ [][Next]_vars

\* a run is never suspended forever: every collaborator call returns or raises
FairSpec == Spec /\ WF_vars(Next)

---------------------------------------------------------------------------
(* Vocabulary of the properties *)

IsRun == pipeline \in Pipelines

LastCall == trace[Len(trace)]

\* the run ended in the except clause of its loop
Failed ==
    /\ pc = "done"
    /\ trace # <<>>
    /\ LastCall.raised
    /\ LastCall.step # "judge"

\* the row whose processing raised
FailedRow == LastCall.row

\* the rows whose answer was judged
JudgedRows == {trace[p].row : p \in {q \in DOMAIN trace : trace[q].step = "judge"}}

\* the answer the model under test gave for row j
AnswerOfRow(j) ==
    LET p == CHOOSE q \in DOMAIN trace :
                 trace[q].step = "answer" /\ trace[q].row = j /\ ~trace[q].raised
    IN  trace[p].text

Ones(sc) == Cardinality({j \in DOMAIN sc : sc[j] = 1})

Embeds(prompt, text) == \E i \in DOMAIN prompt : prompt[i] = text

\* the maximal runs of word characters of s
StandaloneWords(s) ==
    {SubSeq(s, a, b) : <<a, b>> \in
        {w \in (DOMAIN s) \X (DOMAIN s) :
            /\ w[1] <= w[2]
            /\ \A i \in w[1]..w[2] : IsWordChar(s[i])
            /\ (w[1] = 1 \/ ~IsWordChar(s[w[1] - 1]))
            /\ (w[2] = Len(s) \/ ~IsWordChar(s[w[2] + 1]))}}

\* the order in which a DL-agent run calls its collaborators
DL_STEPS == <<"plan", "extract", "answer", "judge">>

\* the trace is a prefix of (plan_i, extract_i, synthesize_i, judge_i), i = 1..n
IsPrefixOfRowOrder ==
    /\ Len(trace) <= Len(DL_STEPS) * Len(dataset)
    /\ \A p \in DOMAIN trace :
        /\ trace[p].row = ((p - 1) \div Len(DL_STEPS)) + 1
        /\ trace[p].step = DL_STEPS[((p - 1) % Len(DL_STEPS)) + 1]

---------------------------------------------------------------------------
(* Properties *)

\* C1: when an exception is raised while processing row k after rows
\* 1..k-1 were judged, the returned accuracy is the fraction of rows
\* 1..k-1 with score 1 (0 when k = 1).
C1_PartialAccuracy ==
    (IsRun /\ Failed) =>
        LET k == FailedRow
        IN  /\ result.accuracy.den > 0
            /\ IF k = 1
               THEN result.accuracy.num = 0
               ELSE result.accuracy.num * (k - 1)
                        = Ones(SubSeq(scores, 1, k - 1)) * result.accuracy.den

\* C2: whatever the inference calls do, a run ends by returning a pair
\* whose accuracy is a number in [0,1]; no exception reaches the caller.
C2_AlwaysReturns ==
    /\ [](IsRun => /\ pc # "propagated"
                   /\ (pc = "done" =>
                          /\ result.accuracy.den > 0
                          /\ 0 <= result.accuracy.num
                          /\ result.accuracy.num <= result.accuracy.den))
    /\ <>(IsRun => pc = "done")

C2_Witness ==
    /\ IsRun
    /\ Failed
    /\ FailedRow = 2
    /\ result.accuracy.den > 0

\* C3: at every return the predictions and the scores have the length of
\* the rows answered and judged, and the returned predictions are the
\* answers of those rows in dataset order; a raise at row k leaves exactly
\* the answers of rows 1..k-1.
C3_PartialPredictions ==
    (IsRun /\ pc = "done") =>
        /\ Len(result.predictions) = Len(scores)
        /\ Len(scores) = Cardinality(JudgedRows)
        /\ JudgedRows = 1..Len(scores)
        /\ \A j \in DOMAIN result.predictions :
               result.predictions[j] = AnswerOfRow(j)
        /\ Failed =>
               /\ Len(result.predictions) = FailedRow - 1
               /\ result.predictions = predictions

C3_Witness ==
    /\ IsRun
    /\ Failed
    /\ LastCall.step = "answer"
    /\ FailedRow = 3
    /\ Len(result.predictions) = 2
    /\ result.predictions[1] # result.predictions[2]

\* C4: judge_answer never raises and returns 0 or 1 for every outcome of
\* the judge model's inference call; a raise is mapped to 0, the row gets
\* score 0 and the run goes on.
C4_JudgeNeverRaises ==
    (judge_in.kind # "none" /\ judge_out # NoVerdict) =>
        /\ ~judge_out.raised
        /\ pc # "propagated"
        /\ judge_out.value \in {0, 1}
        /\ judge_in.kind = "raise" => judge_out.value = 0
        /\ (IsRun /\ trace # <<>> /\ LastCall.step = "judge" /\ LastCall.raised) =>
               /\ Len(scores) = LastCall.row
               /\ scores[LastCall.row] = 0
               /\ pc = "done" =>
                      /\ LastCall.row = Len(dataset)
                      /\ Len(result.predictions) = Len(dataset)
                      /\ result.accuracy.den = Len(dataset)

C4_Witness ==
    /\ IsRun
    /\ pc = "answer"
    /\ idx = 2
    /\ trace[Len(trace)].step = "judge"
    /\ trace[Len(trace)].raised
    /\ scores = <<0>>

\* C5: the verdict depends only on the first completion, lower-cased and
\* trimmed: 1 when it holds "yes" as a standalone word, else 0 when it
\* holds "no" as a standalone word, and 0 otherwise (empty list, neither
\* word, "yesterday").
C5_JudgeVerdict ==
    (pc \in {"judge_ret", "propagated"} /\ judge_in.kind = "return") =>
        LET response == judge_in.response
            words == IF response = <<>>
                     THEN {}
                     ELSE StandaloneWords(
                              [i \in DOMAIN response[1] |-> LowerChar(response[1][i])])
        IN  /\ ~judge_out.raised
            /\ judge_out.value = IF YES \in words THEN 1
                                 ELSE IF NO \in words THEN 0
                                 ELSE 0
            /\ (response # <<>> /\ response[1] = TxtYesterday) => judge_out.value = 0

C5_Witness ==
    /\ pc = "judge_ret"
    /\ judge_in.kind = "return"
    /\ Len(judge_in.response) = 2
    /\ judge_in.response[1] = TxtYesterday
    /\ judge_out.value = 0

\* C6: when no call raises, the accuracy is (rows with score 1) / (rows
\* judged) and there is one prediction per row in iteration order; for an
\* empty dataset the accuracy is 0 and the predictions are empty.
C6_FullAccuracy ==
    (IsRun /\ pc = "done" /\ \A p \in DOMAIN trace : ~trace[p].raised) =>
        /\ Len(result.predictions) = Len(dataset)
        /\ \A j \in DOMAIN dataset : result.predictions[j] = AnswerOfRow(j)
        /\ JudgedRows = DOMAIN dataset
        /\ result.accuracy.den > 0
        /\ result.accuracy.num * Cardinality(JudgedRows)
               = Ones(scores) * result.accuracy.den
        /\ dataset = <<>> =>
               /\ result.accuracy.num = 0
               /\ result.predictions = <<>>

C6_Witness ==
    /\ IsRun
    /\ pc = "done"
    /\ \A p \in DOMAIN trace : ~trace[p].raised
    /\ Len(dataset) = 3
    /\ result.accuracy = [num |-> 2, den |-> 3]

\* C7: the scene detector never raises: for an image that cannot be
\* decoded, or on an internal error, it returns no objects, and the
\* classic run goes on with the row: it queries the model with the
\* "no objects detected" context and judges the answer.
C7_DetectorNeverHalts ==
    (pipeline = "classic" /\ trace # <<>>) =>
        /\ pc \in {"done", "propagated"} => LastCall.step # "detect"
        /\ \A p \in DOMAIN trace : trace[p].step = "detect" => ~trace[p].raised
        /\ (image.decode \in {"none", "error"} /\ LastCall.row = idx) =>
               /\ objects = <<>>
               /\ scene_context = <<NO_OBJECTS>>
               /\ LastCall.step = "detect" => pc = "answer"
               /\ LastCall.step \in {"answer", "judge"} =>
                      /\ Embeds(final_prompt, NO_OBJECTS)
                      /\ Embeds(final_prompt, question)
               /\ (LastCall.step = "answer" /\ ~LastCall.raised) => pc = "judge"
               /\ LastCall.step = "judge" =>
                      /\ Len(scores) = idx
                      /\ Len(predictions) = idx

C7_Witness ==
    /\ pipeline = "classic"
    /\ image = ImgCorrupt
    /\ idx = 2
    /\ pc = "loop"
    /\ LastCall.step = "judge"
    /\ LastCall.row = 2
    /\ Len(scores) = 2
    /\ final_prompt[1] = NO_OBJECTS

\* C8, as stated: the calls of a DL-agent run are a prefix of (plan_i,
\* extract_i, synthesize_i, judge_i) for i = 1..n, and after a call of
\* row k raises no further model or judge call is made.
C8_NoCallAfterAnyRaise ==
    pipeline = "dl" =>
        /\ IsPrefixOfRowOrder
        /\ \A p \in DOMAIN trace : trace[p].raised => p = Len(trace)

\* C8, amended: the calls of a DL-agent run are a prefix of (plan_i,
\* extract_i, synthesize_i, judge_i) for i = 1..n, each row attempted
\* once; after a plan, extract or synthesize call raises no further call
\* is made and the run has returned, while a judge call that raises does
\* not stop the run.
C8_NoCallAfterModelRaise ==
    pipeline = "dl" =>
        /\ IsPrefixOfRowOrder
        /\ \A p \in DOMAIN trace :
              (trace[p].raised /\ trace[p].step # "judge") =>
                  p = Len(trace) /\ pc = "done"
        /\ \A p \in DOMAIN trace :
              (trace[p].raised /\ trace[p].step = "judge" /\ p = Len(trace)) =>
                  /\ pc # "propagated"
                  /\ Len(scores) = trace[p].row
                  /\ pc = "done" => trace[p].row = Len(dataset)

C8_Witness ==
    /\ pipeline = "dl"
    /\ Len(trace) = 6
    /\ trace[4].step = "judge"
    /\ trace[4].raised
    /\ trace[5].step = "plan"
    /\ trace[5].row = 2
    /\ trace[6].raised
    /\ pc = "done"

C10_EmptyCompletions ==
    /\ (IsRun /\ trace # <<>> /\ ~LastCall.raised) =>
        /\ (pipeline = "dl" /\ LastCall.step = "plan" /\ plan_list = <<>>) =>
               plan = NO_PLAN /\ pc = "extract"
        /\ (pipeline = "dl" /\ LastCall.step = "extract" /\ context_list = <<>>) =>
               context = NO_CONTEXT /\ pc = "answer"
        /\ (pipeline = "dl" /\ LastCall.step = "answer" /\ plan_list = <<>>) =>
               Embeds(final_prompt, NO_PLAN)
        /\ (pipeline = "dl" /\ LastCall.step = "answer" /\ context_list = <<>>) =>
               Embeds(final_prompt, NO_CONTEXT)
        /\ (LastCall.step = "answer" /\ model_answer_list = <<>>) =>
               /\ model_answer = ""
               /\ Len(predictions) = LastCall.row
               /\ predictions[LastCall.row] = ""
               /\ pc = "judge"
    /\ (IsRun /\ trace # <<>> /\ LastCall.step = "judge" /\ model_answer_list = <<>>) =>
        /\ predictions[LastCall.row] = ""
        /\ Len(scores) = LastCall.row
        /\ pc # "propagated"
        /\ pc = "done" =>
               /\ result.accuracy.den = Len(dataset)
               /\ Len(result.predictions) = Len(dataset)

C10_Witness ==
    /\ pipeline = "dl"
    /\ pc = "done"
    /\ Len(dataset) = 2
    /\ plan_list = <<>>
    /\ context_list = <<>>
    /\ model_answer_list = <<>>
    /\ Embeds(final_prompt, NO_PLAN)
    /\ Embeds(final_prompt, NO_CONTEXT)
    /\ result.predictions = <<"t2", "">>
    /\ result.accuracy.den = 2

=============================================================================
